---- MODULE Spec2Model ----
(***************************************************************************)
(* The /weather endpoint of web-server/src/main.rs: get_weather handlers   *)
(* running concurrently on the server's workers, the provider call each    *)
(* one awaits, and the Mutex<Vec<Weather>> of AppState they share.         *)
(***************************************************************************)
EXTENDS Integers, Sequences, FiniteSets, TLC

\* Concurrent invocations of the handler.
NumHandlers == 2
\* Longest sequence of records a provider reply carries.
MaxLen == 2

Handlers == 1..NumHandlers

\* The provider's forecast batches: a batch's records share its description
\* and temperature and are numbered 1, 2, ... in reply order.
Batches == {"Clear", "Rain"}

Temperature(b) == IF b = "Clear" THEN 295 ELSE 280

\* struct Weather { id, description, temperature }
Weather(k, b) == [id |-> k, description |-> b, temperature |-> Temperature(b)]

\* The Vec<Weather> values a reply can decode to: the first n records of a batch.
BatchSeq(b, n) == [k \in 1..n |-> Weather(k, b)]

ProviderSeqs == {BatchSeq(b, n) : b \in Batches, n \in 0..MaxLen}

\* #[derive(Serialize)]: a record on the wire, its fields in declaration order.
EncodeWeather(w) == <<w.id, w.description, w.temperature>>

\* The JSON array serde_json writes for a Vec<Weather>: one object per record,
\* in the vector's order.
Encode(s) == [k \in 1..Len(s) |-> EncodeWeather(s[k])]

\* #[derive(Deserialize)]: an object with all three fields gives a record.
DecodeWeather(o) == [id |-> o[1], description |-> o[2], temperature |-> o[3]]

\* Reply bodies: a JSON array of objects, or text that is no JSON array.
WireBody(arr, items) == [array |-> arr, items |-> items]

NotJson == WireBody(FALSE, <<>>)

\* An array whose object lacks the temperature field.
MissingField == WireBody(TRUE, << <<1, "Clear">> >>)

WireBodies == {WireBody(TRUE, Encode(s)) : s \in ProviderSeqs} \cup {NotJson, MissingField}

\* Result<Vec<Weather>, Box<dyn Error>>
Ok(s) == [ok |-> TRUE, data |-> s]

Err == [ok |-> FALSE, data |-> <<>>]

\* No value yet (a local not yet bound).
NoResult == [ok |-> FALSE, data |-> << <<>> >>]

\* response.json::<Vec<Weather>>(): the body must be an array whose every
\* object has the three fields.
DecodeBody(b) ==
    IF b.array /\ \A k \in 1..Len(b.items) : Len(b.items[k]) = 3
    THEN Ok([k \in 1..Len(b.items) |-> DecodeWeather(b.items[k])])
    ELSE Err

\* What comes back from send(): a transport error, or an HTTP response with a
\* status line and a body.
TransportError == [kind |-> "error", status |-> 0, body |-> NotJson]

HttpReply(st, b) == [kind |-> "http", status |-> st, body |-> b]

NoReply == [kind |-> "none", status |-> 0, body |-> NotJson]

ProviderStatuses == {200, 401}

Replies == {TransportError} \cup {HttpReply(st, b) : st \in ProviderStatuses, b \in WireBodies}

\* OpenWeatherMapClient::get_weather: send().await? fails on a transport
\* error only (the status is not inspected), json().await? on an undecodable body.
ProviderGetWeather(r) ==
    IF r.kind = "error" THEN Err ELSE DecodeBody(r.body)

----------------------------------------------------------------------------
\* call_gpt of src/apis/call_request.rs.

\* Longest choices list an API response carries.
MaxChoices == 2
\* Longest transcript passed to call_gpt.
MaxMessages == 1

\* An environment variable is unset or holds a string, here a sequence of
\* byte values: "A", "B", or a line feed.
Unset == <<0>>

EnvValues == {Unset, <<65>>, <<66>>, <<10>>}

\* "Bearer "
Bearer == <<66, 101, 97, 114, 101, 114, 32>>

\* HeaderValue::from_str: every byte must be a tab or a visible character.
ValidHeaderByte(b) == b = 9 \/ (b >= 32 /\ b # 127)

HeaderValueFromStr(v) == \A k \in 1..Len(v) : ValidHeaderByte(v[k])

\* Vec<Message>
Transcripts == UNION {[1..n -> {"Hi there"}] : n \in 0..MaxMessages}

\* APIResponse.choices: the message contents of the choices, in order.
ChoiceLists == UNION {[1..n -> {"Hello", "Bye"}] : n \in 0..MaxChoices}

\* What send() and json() can come to: a transport error, a body that does
\* not decode as APIResponse, or a decoded APIResponse.
GptReply(kind, choices) == [kind |-> kind, choices |-> choices]

GptReplies ==
    {GptReply("transport_error", <<>>), GptReply("undecodable", <<>>)}
        \cup {GptReply("decoded", c) : c \in ChoiceLists}

\* How a call ends: Ok(String), Err(Box<dyn Error>), or a panic that unwinds
\* out of call_gpt with no Result.
GptOut(kind, content) == [kind |-> kind, content |-> content]

GptRunning == GptOut("none", "")

GptCall(p, key, org, msgs, reply, out) ==
    [pc |-> p, key |-> key, org |-> org, messages |-> msgs, reply |-> reply, out |-> out]

GptNotCalled == GptCall("idle", Unset, Unset, <<>>, GptReply("none", <<>>), GptRunning)


VARIABLES
    pc,            \* each handler's position in get_weather
    upstream,      \* each handler's outbound request: none, pending, silent, answered, cancelled
    response,      \* the reply send() produced
    weather_data,  \* the handler's local: the provider call's Result
    locked,        \* the Mutex of AppState.weather
    guard,         \* whether the handler owns the MutexGuard
    weather,       \* the Vec<Weather> inside the Mutex
    body,          \* the response body the handler has serialized so far
    status,        \* the response's status (0: none yet)
    order,         \* the handlers in the order their overwrite executed
    gpt            \* the one call of call_gpt (apis/call_request.rs): its position, inputs and result

vars == <<pc, upstream, response, weather_data, locked, guard, weather, body, status, order, gpt>>

\* main: AppState { weather: Mutex::new(Vec::new()) }; no request yet.
ServerInit ==
    /\ pc = [i \in Handlers |-> "idle"]
    /\ upstream = [i \in Handlers |-> "none"]
    /\ response = [i \in Handlers |-> NoReply]
    /\ weather_data = [i \in Handlers |-> NoResult]
    /\ locked = FALSE
    /\ guard = [i \in Handlers |-> FALSE]
    /\ weather = <<>>
    /\ body = [i \in Handlers |-> <<>>]
    /\ status = [i \in Handlers |-> 0]
    /\ order = <<>>

\* The web server never calls call_gpt.
Init == ServerInit /\ gpt = GptNotCalled

\* Mutant of Receive: the handler takes the mutex before it awaits the provider.
ReceiveLocking(i) ==
    /\ pc[i] = "idle"
    /\ ~locked
    /\ locked' = TRUE
    /\ guard' = [guard EXCEPT ![i] = TRUE]
    /\ pc' = [pc EXCEPT ![i] = "fetching"]
    /\ \E u \in {"pending", "silent"} : upstream' = [upstream EXCEPT ![i] = u]
    /\ UNCHANGED <<gpt, response, weather_data, weather, body, status, order>>

\* A GET /weather arrives: the handler starts and awaits the provider call.
\* The client has no timeout, so a provider that stays silent is awaited forever.
Receive(i) ==
    /\ pc[i] = "idle"
    /\ pc' = [pc EXCEPT ![i] = "fetching"]
    /\ \E u \in {"pending", "silent"} : upstream' = [upstream EXCEPT ![i] = u]
    /\ UNCHANGED <<gpt, response, weather_data, locked, guard, weather, body, status, order>>

\* let weather_data = weather_service.get_weather().await;
FetchComplete(i) ==
    /\ pc[i] = "fetching"
    /\ upstream[i] = "pending"
    /\ \E r \in Replies :
        /\ response' = [response EXCEPT ![i] = r]
        /\ weather_data' = [weather_data EXCEPT ![i] = ProviderGetWeather(r)]
    /\ upstream' = [upstream EXCEPT ![i] = "answered"]
    /\ pc' = [pc EXCEPT ![i] = "match"]
    /\ UNCHANGED <<gpt, locked, guard, weather, body, status, order>>

\* Mutant of MatchErr: a failed fetch is tried again.
MatchErrRetries(i) ==
    /\ pc[i] = "match"
    /\ ~weather_data[i].ok
    /\ pc' = [pc EXCEPT ![i] = "fetching"]
    /\ upstream' = [upstream EXCEPT ![i] = "pending"]
    /\ UNCHANGED <<gpt, response, weather_data, locked, guard, weather, body, status, order>>

\* Mutant of MatchErr: the error arm also clears the cache.
MatchErrClearsCache(i) ==
    /\ pc[i] = "match"
    /\ ~weather_data[i].ok
    /\ weather' = <<>>
    /\ status' = [status EXCEPT ![i] = 500]
    /\ body' = [body EXCEPT ![i] = <<>>]
    /\ pc' = [pc EXCEPT ![i] = "returned"]
    /\ UNCHANGED <<gpt, upstream, response, weather_data, locked, guard, order>>

\* Err(_) => HttpResponse::InternalServerError().finish()
MatchErr(i) ==
    /\ pc[i] = "match"
    /\ ~weather_data[i].ok
    /\ status' = [status EXCEPT ![i] = 500]
    /\ body' = [body EXCEPT ![i] = <<>>]
    /\ pc' = [pc EXCEPT ![i] = "returned"]
    /\ UNCHANGED <<gpt, upstream, response, weather_data, locked, guard, weather, order>>

\* Mutant of Lock: the handler goes on without waiting for the mutex.
LockNoExclusion(i) ==
    /\ pc[i] = "match"
    /\ weather_data[i].ok
    /\ locked' = TRUE
    /\ guard' = [guard EXCEPT ![i] = TRUE]
    /\ pc' = [pc EXCEPT ![i] = "write"]
    /\ UNCHANGED <<gpt, upstream, response, weather_data, weather, body, status, order>>

\* Ok(data) => { let mut weather = app_state.weather.lock().unwrap();
\* blocks while another handler owns the guard.
Lock(i) ==
    /\ pc[i] = "match"
    /\ weather_data[i].ok
    /\ ~locked
    /\ locked' = TRUE
    /\ guard' = [guard EXCEPT ![i] = TRUE]
    /\ pc' = [pc EXCEPT ![i] = "write"]
    /\ UNCHANGED <<gpt, upstream, response, weather_data, weather, body, status, order>>

\* Mutant of Write: the fetched records are appended to the cache.
WriteExtend(i) ==
    /\ pc[i] = "write"
    /\ weather' = weather \o weather_data[i].data
    /\ order' = Append(order, i)
    /\ pc' = [pc EXCEPT ![i] = "read"]
    /\ UNCHANGED <<gpt, upstream, response, weather_data, locked, guard, body, status>>

\* Mutant of Write: the overwrite goes to a copy, the shared vector is untouched.
WriteToCopy(i) ==
    /\ pc[i] = "write"
    /\ weather' = weather
    /\ order' = Append(order, i)
    /\ pc' = [pc EXCEPT ![i] = "read"]
    /\ UNCHANGED <<gpt, upstream, response, weather_data, locked, guard, body, status>>

\* Mutant of Write: only an empty cache is filled.
WriteOnce(i) ==
    /\ pc[i] = "write"
    /\ weather' = IF weather = <<>> THEN weather_data[i].data ELSE weather
    /\ order' = Append(order, i)
    /\ pc' = [pc EXCEPT ![i] = "read"]
    /\ UNCHANGED <<gpt, upstream, response, weather_data, locked, guard, body, status>>

\* Mutant of Write: the guard is dropped right after the overwrite, and the
\* response is serialized from the cache without it.
WriteAndRelease(i) ==
    /\ pc[i] = "write"
    /\ weather' = weather_data[i].data
    /\ order' = Append(order, i)
    /\ locked' = FALSE
    /\ guard' = [guard EXCEPT ![i] = FALSE]
    /\ pc' = [pc EXCEPT ![i] = "read"]
    /\ UNCHANGED <<gpt, upstream, response, weather_data, body, status>>

\* *weather = data;
Write(i) ==
    /\ pc[i] = "write"
    /\ weather' = weather_data[i].data
    /\ order' = Append(order, i)
    /\ pc' = [pc EXCEPT ![i] = "read"]
    /\ UNCHANGED <<gpt, upstream, response, weather_data, locked, guard, body, status>>

\* HttpResponse::Ok().json(&*weather): the serializer walks the vector, one
\* record at a time.
Read(i) ==
    /\ pc[i] = "read"
    /\ Len(body[i]) < Len(weather)
    /\ body' = [body EXCEPT ![i] = Append(body[i], EncodeWeather(weather[Len(body[i]) + 1]))]
    /\ UNCHANGED <<gpt, pc, upstream, response, weather_data, locked, guard, weather, status, order>>

\* Mutant of Unlock: the response is built by taking the records out of the
\* cache, which is left empty.
UnlockTakes(i) ==
    /\ pc[i] = "read"
    /\ Len(body[i]) >= Len(weather)
    /\ weather' = <<>>
    /\ status' = [status EXCEPT ![i] = 200]
    /\ locked' = FALSE
    /\ guard' = [guard EXCEPT ![i] = FALSE]
    /\ pc' = [pc EXCEPT ![i] = "returned"]
    /\ UNCHANGED <<gpt, upstream, response, weather_data, body, order>>

\* Mutant of Unlock: the guard is leaked, the mutex stays locked.
UnlockLeaks(i) ==
    /\ pc[i] = "read"
    /\ Len(body[i]) >= Len(weather)
    /\ status' = [status EXCEPT ![i] = 200]
    /\ pc' = [pc EXCEPT ![i] = "returned"]
    /\ UNCHANGED <<gpt, upstream, response, weather_data, locked, guard, weather, body, order>>

\* The end of the vector: the body is complete, the response is built with
\* status 200, and the guard is dropped at the end of the match arm.
Unlock(i) ==
    /\ pc[i] = "read"
    /\ Len(body[i]) >= Len(weather)
    /\ status' = [status EXCEPT ![i] = 200]
    /\ locked' = FALSE
    /\ guard' = [guard EXCEPT ![i] = FALSE]
    /\ pc' = [pc EXCEPT ![i] = "returned"]
    /\ UNCHANGED <<gpt, upstream, response, weather_data, weather, body, order>>

\* The server writes the response the handler returned to the client.
Respond(i) ==
    /\ pc[i] = "returned"
    /\ pc' = [pc EXCEPT ![i] = "done"]
    /\ UNCHANGED <<gpt, upstream, response, weather_data, locked, guard, weather, body, status, order>>

\* The client's connection is reset while the handler awaits the provider: the
\* server drops the handler's future, and with it the provider call it owns
\* (get_weather awaits the call inline; nothing is spawned).
Disconnect(i) ==
    /\ pc[i] = "fetching"
    /\ pc' = [pc EXCEPT ![i] = "dropped"]
    /\ upstream' = [upstream EXCEPT ![i] = "cancelled"]
    /\ UNCHANGED <<gpt, response, weather_data, locked, guard, weather, body, status, order>>

Next ==
    \E i \in Handlers :
        \/ Receive(i)
        \/ FetchComplete(i)
        \/ MatchErr(i)
        \/ Lock(i)
        \/ Write(i)
        \/ Read(i)
        \/ Unlock(i)
        \/ Respond(i)
        \/ Disconnect(i)

Spec == Init /\ [][Next]_vars

\* The handler's own steps are scheduled fairly and a pending provider reply
\* arrives; nothing obliges a new request to arrive, a silent provider to
\* answer, or a client to disconnect.
Fairness ==
    \A i \in Handlers :
        /\ WF_vars(FetchComplete(i))
        /\ WF_vars(MatchErr(i))
        /\ WF_vars(Lock(i))
        /\ WF_vars(Write(i))
        /\ WF_vars(Read(i))
        /\ WF_vars(Unlock(i))
        /\ WF_vars(Respond(i))

FairSpec == Spec /\ Fairness

----------------------------------------------------------------------------
\* call_gpt, one call: the environment after dotenv().ok() and the transcript
\* are the inputs.

server_vars == <<pc, upstream, response, weather_data, locked, guard, weather, body, status, order>>

GptInit ==
    /\ ServerInit
    /\ \E key \in EnvValues, org \in EnvValues, msgs \in Transcripts :
        gpt = GptCall("key", key, org, msgs, GptReply("none", <<>>), GptRunning)

\* The call ends with Err(e): the ? after map_err returns it.
GptReturnErr(e) ==
    gpt' = [gpt EXCEPT !.pc = "returned", !.out = GptOut("err", e)]

\* The call ends in a panic (expect on an Err, an index out of bounds).
GptPanic(msg) ==
    gpt' = [gpt EXCEPT !.pc = "panicked", !.out = GptOut("panic", msg)]

\* env::var("OPEN_AI_KEY").expect("OPEN_AI_KEY not found in environment variables")
GptReadKey ==
    /\ gpt.pc = "key"
    /\ IF gpt.key = Unset
       THEN GptPanic("OPEN_AI_KEY not found in environment variables")
       ELSE gpt' = [gpt EXCEPT !.pc = "org"]
    /\ UNCHANGED server_vars

\* env::var("OPEN_AI_ORG").expect("OPEN_AI_ORG not found in environment variables")
GptReadOrg ==
    /\ gpt.pc = "org"
    /\ IF gpt.org = Unset
       THEN GptPanic("OPEN_AI_ORG not found in environment variables")
       ELSE gpt' = [gpt EXCEPT !.pc = "auth_header"]
    /\ UNCHANGED server_vars

\* HeaderValue::from_str(&format!("Bearer {}", api_key)).map_err(..)?
GptAuthHeader ==
    /\ gpt.pc = "auth_header"
    /\ IF HeaderValueFromStr(Bearer \o gpt.key)
       THEN gpt' = [gpt EXCEPT !.pc = "org_header"]
       ELSE GptReturnErr("InvalidHeaderValue")
    /\ UNCHANGED server_vars

\* HeaderValue::from_str(api_org.as_str()).map_err(..)?
GptOrgHeader ==
    /\ gpt.pc = "org_header"
    /\ IF HeaderValueFromStr(gpt.org)
       THEN gpt' = [gpt EXCEPT !.pc = "client"]
       ELSE GptReturnErr("InvalidHeaderValue")
    /\ UNCHANGED server_vars

\* Client::builder().default_headers(headers).build().map_err(..)?
GptBuildClient ==
    /\ gpt.pc = "client"
    /\ \E built \in BOOLEAN :
        IF built
        THEN gpt' = [gpt EXCEPT !.pc = "send"]
        ELSE GptReturnErr("builder error")
    /\ UNCHANGED server_vars

\* client.post(url).json(&chat_completion).send().await.map_err(..)?
\*     .json().await.map_err(..)?
GptSend ==
    /\ gpt.pc = "send"
    /\ \E r \in GptReplies :
        CASE r.kind = "transport_error" -> GptReturnErr("request error")
          [] r.kind = "undecodable" -> GptReturnErr("decode error")
          [] OTHER -> gpt' = [gpt EXCEPT !.pc = "index", !.reply = r]
    /\ UNCHANGED server_vars

\* Ok(res.choices[0].message.content.clone()): indexing an empty Vec panics.
GptFirstChoice ==
    /\ gpt.pc = "index"
    /\ IF Len(gpt.reply.choices) = 0
       THEN GptPanic("index out of bounds")
       ELSE gpt' = [gpt EXCEPT !.pc = "returned", !.out = GptOut("ok", gpt.reply.choices[1])]
    /\ UNCHANGED server_vars

GptNext ==
    \/ GptReadKey
    \/ GptReadOrg
    \/ GptAuthHeader
    \/ GptOrgHeader
    \/ GptBuildClient
    \/ GptSend
    \/ GptFirstChoice

GptSpec == GptInit /\ [][GptNext]_vars

----------------------------------------------------------------------------
\* Vocabulary of the properties.

\* The sequence handler i's fetch produced.
Fetched(i) == weather_data[i].data

\* The handler has returned its response.
Finished(i) == pc[i] \in {"returned", "done"}

\* The complete arguments of the overwrites executed so far.
Replaced == {Fetched(order[k]) : k \in 1..Len(order)}

\* k-th overwrite precedes the l-th.
CommittedBefore(i, j) ==
    \E k, l \in 1..Len(order) : k < l /\ order[k] = i /\ order[l] = j

Prefix(s, n) == [k \in 1..n |-> s[k]]

----------------------------------------------------------------------------
\* C1. Cache atomicity: the cache, and every body read from it, is the
\* complete argument of one earlier overwrite or the empty initial sequence;
\* a read in progress has copied a prefix of the sequence the cache holds.
C1_CacheAtomicity ==
    /\ weather \in Replaced \cup {<<>>}
    /\ \A i \in Handlers :
        /\ pc[i] = "read" =>
            /\ Len(body[i]) <= Len(weather)
            /\ body[i] = Prefix(Encode(weather), Len(body[i]))
        /\ (Finished(i) /\ status[i] = 200) =>
            body[i] \in {Encode(s) : s \in Replaced \cup {<<>>}}

\* Two overwrites with different non-empty sequences have executed and a
\* handler has returned a body of two records.
C1_Witness ==
    \E i, j \in Handlers :
        /\ CommittedBefore(i, j)
        /\ Fetched(i) # Fetched(j)
        /\ Len(Fetched(i)) >= 2 /\ Len(Fetched(j)) >= 2
        /\ pc[i] = "done" /\ status[i] = 200 /\ Len(body[i]) >= 2

\* C2. Fetch failure: every step of an invocation whose fetch failed leaves
\* the cache as it was, and the invocation returns status 500 with an empty
\* body.
C2_FetchFailureLeavesCache ==
    [][\A i \in Handlers :
          (pc'[i] # pc[i] /\ weather_data'[i] = Err) =>
              /\ weather' = weather
              /\ order' = order
              /\ Finished(i)' => (status'[i] = 500 /\ body'[i] = <<>>)]_vars

\* An invocation's fetch failed and it answered 500 while the cache holds a
\* non-empty sequence.
C2_Witness ==
    \E i \in Handlers :
        /\ pc[i] = "done" /\ weather_data[i] = Err
        /\ status[i] = 500 /\ body[i] = <<>>
        /\ weather # <<>>

\* C3. Successful fetch: an invocation that ran with no other invocation
\* started and whose fetch produced S returns status 200 with the body that
\* encodes S, record for record as the provider sent it, and the cache holds S.
C3_SuccessfulFetch ==
    \A i \in Handlers :
        (Finished(i) /\ weather_data[i].ok /\ \A j \in Handlers \ {i} : pc[j] = "idle") =>
            /\ status[i] = 200
            /\ body[i] = Encode(Fetched(i))
            /\ body[i] = response[i].body.items
            /\ weather = Fetched(i)

\* A lone invocation has answered with a body of two records.
C3_Witness ==
    \E i \in Handlers :
        /\ pc[i] = "done" /\ weather_data[i].ok /\ Len(Fetched(i)) >= 2
        /\ \A j \in Handlers \ {i} : pc[j] = "idle"

\* C4. Concurrent requests: when every invocation has finished and their
\* fetches produced pairwise different sequences, each response is 200 with a
\* body equal to exactly one of those sequences, and the cache is the sequence
\* of the invocation whose overwrite executed last.
C4_ConcurrentRequests ==
    ( /\ \A i \in Handlers : pc[i] = "done" /\ weather_data[i].ok
      /\ \A i, j \in Handlers : i # j => Fetched(i) # Fetched(j) ) =>
        /\ Len(order) = NumHandlers
        /\ weather = Fetched(order[Len(order)])
        /\ \A i \in Handlers :
            /\ status[i] = 200
            /\ Cardinality({j \in Handlers : body[i] = Encode(Fetched(j))}) = 1

\* Every invocation has finished with a different sequence.
C4_Witness ==
    /\ \A i \in Handlers : pc[i] = "done" /\ weather_data[i].ok
    /\ \A i, j \in Handlers : i # j => Fetched(i) # Fetched(j)
    /\ weather # <<>>

\* C5. The provider call fails on a transport failure, on a body that does
\* not decode, and on a non-success status whatever the body; the endpoint
\* then answers 500 and does not overwrite the cache.
C5_NonSuccessStatusFails ==
    \A i \in Handlers :
        ( \/ response[i].kind = "error"
          \/ response[i].kind = "http" /\ ~DecodeBody(response[i].body).ok
          \/ response[i].kind = "http" /\ response[i].status # 200 ) =>
            /\ weather_data[i] = Err
            /\ Finished(i) => status[i] = 500
            /\ \A k \in 1..Len(order) : order[k] # i

\* C6. Every invocation ends with a response (or is dropped with its
\* client), also when the provider never answers.
C6_EveryInvocationResponds ==
    \A i \in Handlers : (pc[i] = "fetching") ~> (pc[i] \in {"done", "dropped"})

\* C7. After the client disconnects during the fetch, the provider call is
\* still in flight.
C7_FetchSurvivesDisconnect ==
    \A i \in Handlers : pc[i] = "dropped" => upstream[i] \in {"pending", "silent"}

\* C8. Mutual exclusion: at most one handler owns the guard, the mutex is
\* locked exactly while one does, and a handler at the overwrite or at the
\* read that serializes the response owns it.
C8_MutualExclusion ==
    /\ Cardinality({i \in Handlers : guard[i]}) <= 1
    /\ locked <=> \E i \in Handlers : guard[i]
    /\ \A i \in Handlers : pc[i] \in {"write", "read"} <=> guard[i]

\* One handler is in the middle of serializing under the guard while another,
\* its fetch done, waits for the mutex.
C8_Witness ==
    \E i, j \in Handlers :
        /\ i # j
        /\ pc[i] = "read" /\ guard[i] /\ Len(body[i]) = 1 /\ Len(weather) >= 2
        /\ pc[j] = "match" /\ weather_data[j].ok

\* C9. A handler waiting for the provider does not own the guard, and any
\* other handler whose fetch succeeded can take the mutex unless a handler
\* that is overwriting or serializing holds it.
C9_NoGateDuringFetch ==
    \A i \in Handlers :
        pc[i] = "fetching" =>
            /\ ~guard[i]
            /\ \A j \in Handlers :
                (pc[j] = "match" /\ weather_data[j].ok) =>
                    \/ ENABLED Lock(j)
                    \/ \E k \in Handlers \ {i} : guard[k] /\ pc[k] \in {"write", "read"}

\* One handler waits for a provider that stays silent while another has
\* overwritten the cache and answered.
C9_Witness ==
    \E i, j \in Handlers :
        /\ pc[i] = "fetching" /\ upstream[i] = "silent"
        /\ pc[j] = "done" /\ status[j] = 200 /\ weather = Fetched(j) /\ weather # <<>>

\* C10 (as amended). Every 200 response carries the sequence the invocation's
\* own fetch produced, also when another invocation overwrote the cache
\* before the response was sent: the body is serialized under the same guard
\* as the overwrite.
C10_ResponseIsOwnFetch ==
    \A i \in Handlers :
        (Finished(i) /\ status[i] = 200) => body[i] = Encode(Fetched(i))

\* C10 (as claimed). In the race the claim describes, where another
\* invocation overwrote the cache with a different sequence after this one's
\* overwrite and before this one's response is sent, the response carries the
\* newer sequence.
C10_SlowerSeesNewer ==
    \A i, j \in Handlers :
        ( /\ pc[i] = "returned" /\ status[i] = 200
          /\ CommittedBefore(i, j)
          /\ Fetched(i) # Fetched(j) ) =>
            body[i] = Encode(Fetched(j))

\* The race: handler i's response is not yet sent, and handler j has since
\* overwritten the cache with a different sequence.
C10_Witness ==
    \E i, j \in Handlers :
        /\ pc[i] = "returned" /\ status[i] = 200
        /\ CommittedBefore(i, j)
        /\ Fetched(i) # Fetched(j)
        /\ weather = Fetched(j)

----------------------------------------------------------------------------
\* The copy of the cache a snapshot would return.
Snapshot == weather

\* How many overwrites handler i has executed.
Overwrites(i) == Cardinality({k \in 1..Len(order) : order[k] = i})

\* C11. Every 200 response body equals the cache contents at the instant the
\* body is completed: the step that finishes the body and sets status 200
\* finds the body equal to the encoding of the cache, and while the handler
\* still owns the guard nothing has changed that.
C11_BodyIsCacheWhenProduced ==
    [][\A i \in Handlers :
          (status[i] # 200 /\ status'[i] = 200) =>
              /\ body'[i] = Encode(weather)
              /\ body'[i] = Encode(weather')]_vars

\* A handler has just completed a two-record body while the other handler
\* had already overwritten the cache before it.
C11_Witness ==
    \E i, j \in Handlers :
        /\ CommittedBefore(j, i)
        /\ pc[i] = "returned" /\ status[i] = 200
        /\ Len(body[i]) >= 2 /\ body[i] = Encode(weather)

\* C12. The cache is empty at process start and changes only in the
\* overwrite of an invocation whose fetch succeeded, which sets it to the
\* fetched sequence; so it is always empty or the result of a successful fetch.
C12_CacheChangesOnlyOnCommit ==
    /\ weather = <<>>
    /\ [][weather' # weather =>
            \E i \in Handlers :
                /\ pc[i] = "write" /\ pc'[i] = "read"
                /\ weather_data[i].ok
                /\ weather' = Fetched(i)
                /\ order' = Append(order, i)]_vars
    /\ [](weather = <<>> \/ \E i \in Handlers :
                                /\ weather_data[i].ok
                                /\ Overwrites(i) >= 1
                                /\ weather = Fetched(i))

\* The cache holds a fetched sequence while one invocation has failed, one
\* has answered, and so every kind of step has run.
C12_Witness ==
    \E i, j \in Handlers :
        /\ pc[i] = "done" /\ weather_data[i] = Err
        /\ pc[j] = "done" /\ status[j] = 200
        /\ weather = Fetched(j) /\ Len(weather) >= 2

\* C13. Idempotent read: as long as no overwrite executes, a snapshot of the
\* cache returns the same sequence, whatever steps (requests arriving,
\* fetches completing or failing, reads, responses) happen meanwhile.
C13_IdempotentRead ==
    [][order' = order => Snapshot' = Snapshot]_vars

\* A handler has read the cache twice (two records serialized) with no
\* overwrite in between while another invocation is in its fetching phase.
C13_Witness ==
    \E i, j \in Handlers :
        /\ pc[i] = "read" /\ Len(body[i]) = 2 /\ Len(Snapshot) >= 2
        /\ order[Len(order)] = i
        /\ pc[j] = "fetching"

\* C14. No retry and no partial success.  An invocation issues its provider
\* call once and never again, a returned response is never replaced, and an
\* invocation that has answered has called the provider once and overwritten
\* the cache exactly once (status 200) or not at all (status 500); no
\* invocation ever overwrites twice.
C14_NoRetryNoPartialSuccess ==
    /\ [][\A i \in Handlers :
            /\ upstream[i] # "none" => upstream'[i] \notin {"none", "pending", "silent"} \/ upstream'[i] = upstream[i]
            /\ Finished(i) => (Finished(i)' /\ status'[i] = status[i] /\ body'[i] = body[i])
            /\ pc[i] = "done" => pc'[i] = "done"]_vars
    /\ [](\A i \in Handlers :
            /\ Overwrites(i) <= 1
            /\ Finished(i) =>
                /\ upstream[i] = "answered"
                /\ status[i] \in {200, 500}
                /\ status[i] = 200 <=> weather_data[i].ok
                /\ Overwrites(i) = (IF weather_data[i].ok THEN 1 ELSE 0))

\* One invocation has answered 500 and another 200.
C14_Witness ==
    \E i, j \in Handlers :
        /\ pc[i] = "done" /\ status[i] = 500 /\ Overwrites(i) = 0
        /\ pc[j] = "done" /\ status[j] = 200 /\ Overwrites(j) = 1

\* C16. The gate is always released and the overwrite always succeeds: a
\* handler waiting for the mutex can take it or its owner can take a step,
\* and under fair scheduling there comes a point from which every invocation
\* whose fetch succeeded has overwritten the cache and answered 200 (a
\* succeeded fetch and a sent response are both permanent).
C16_GateAlwaysReleased ==
    /\ [](\A i \in Handlers :
            (pc[i] = "match" /\ weather_data[i].ok) =>
                \/ ENABLED Lock(i)
                \/ \E k \in Handlers :
                    guard[k] /\ (ENABLED Write(k) \/ ENABLED Read(k) \/ ENABLED Unlock(k)))
    /\ <>[](\A i \in Handlers :
              (upstream[i] = "answered" /\ weather_data[i].ok) =>
                  (pc[i] = "done" /\ status[i] = 200 /\ Overwrites(i) = 1))

\* Every handler has waited its turn at the mutex and answered 200.
C16_Witness ==
    /\ Len(order) = NumHandlers
    /\ \A i \in Handlers : pc[i] = "done" /\ status[i] = 200 /\ Overwrites(i) = 1

----------------------------------------------------------------------------
\* The call has ended, one way or the other.
GptEnded == gpt.pc \in {"returned", "panicked"}

\* C15. When OPEN_AI_KEY or OPEN_AI_ORG is not set, call_gpt ends by
\* returning an Err value.
C15_MissingEnvReturnsErr ==
    (GptEnded /\ (gpt.key = Unset \/ gpt.org = Unset)) => gpt.out.kind = "err"

\* C17. With both variables set, every call that ends has returned a
\* Result: Ok with the content of the first choice when the response
\* decoded, whatever the length of its choices list, and Err otherwise.
C17_AlwaysReturnsResult ==
    (GptEnded /\ gpt.key # Unset /\ gpt.org # Unset) =>
        /\ gpt.out.kind \in {"ok", "err"}
        /\ gpt.reply.kind = "decoded" => gpt.out.kind = "ok"
        /\ gpt.out.kind = "ok" =>
            /\ gpt.reply.kind = "decoded"
            /\ Len(gpt.reply.choices) >= 1
            /\ gpt.out.content = gpt.reply.choices[1]

====
